---------------------------- MODULE Spec2Model ----------------------------
(***************************************************************************)
(* Model of the VI services of src/core/hle/service/vi/vi.cpp: the binder  *)
(* driver (IHOSBinderDriver::TransactParcel, AdjustRefcount,               *)
(* GetNativeHandle) with the buffer queues it drives, the display          *)
(* services (access gate, OpenDisplay, OpenLayer, layer creation,          *)
(* SetLayerScalingMode, ConvertScalingMode) with the display registry      *)
(* behind them, and the parcel codec (class Parcel and the request and     *)
(* response parcels derived from it).                                      *)
(*                                                                         *)
(* The handlers are translated from vi.cpp.  The BufferQueue and the       *)
(* display registry (nvflinger), the consumer side, the kernel's           *)
(* sleep/wake primitive and the assertion macro are not part of the        *)
(* sources at hand; they are modelled from the written specification       *)
(* (sections 4.3, 4.4, 5 and 7) and are the operators prefixed             *)
(* BufferQueue_ and NVFlinger_, the actions Consumer* and the operator     *)
(* Abort.                                                                  *)
(*                                                                         *)
(* Spec and LiveSpec run the binder driver on two existing buffer queues;  *)
(* ServiceSpec runs the display services from an empty registry;           *)
(* ParcelSpec runs the member functions of one parcel, step by step;       *)
(* PayloadSpec runs the writing half on response parcels, among them       *)
(* types whose data is one value of a size near the default buffer's end.  *)
(***************************************************************************)
EXTENDS Integers, FiniteSets, Sequences, TLC

\* ------------------------------------------------------------------ bounds

\* Number of guest threads issuing transactions.
NumThreads == 2

Threads == 1..NumThreads

\* ------------------------------------------------------- registry contents

\* The buffer queue ids FindBufferQueue resolves.
QueueIds == {1, 2}

\* Fixed capacity N of each queue: queue 1 has two slots, queue 2 one.
Capacity(q) == IF q = 1 THEN 2 ELSE 1

Slots(q) == 0..(Capacity(q) - 1)

\* ----------------------------------------------------------------- values

SlotStates == {"FREE", "DEQUEUED", "QUEUED", "ACQUIRED"}

\* Buffer dimensions <<width, height>> a descriptor or a request can carry.
Dims == {<<1280, 720>>, <<1920, 1080>>}

\* The dimensions guests request buffers with.
RequestDims == {<<1280, 720>>}

\* A slot with no bound descriptor.
NoBuffer == <<0, 0>>

\* std::nullopt result of DequeueBuffer / no slot reported.
NoSlot == -1

\* No queue (no continuation registered, no wake received).
NoQueue == 0

\* No result code pushed yet.
NoCode == -1

\* No display or layer id in the response.
NoId == -1

\* Result codes: RESULT_SUCCESS and the description numbers of the VI errors.
RESULT_SUCCESS == 0
ERR_OPERATION_FAILED == 1
ERR_PERMISSION_DENIED == 5
ERR_UNSUPPORTED == 6
ERR_NOT_FOUND == 7

VARIABLES
    slotState,  \* slotState[q][s]: lifecycle state of slot s of queue q
    slotDesc,   \* slotDesc[q][s]: dimensions of the bound descriptor, or NoBuffer
    status,     \* status[t]: "idle", "responded", "parked", "woken", "aborted",
                \* "stopped"
    callq,      \* callq[t]: queue id captured by the continuation of t
    calldims,   \* calldims[t]: <<width, height>> captured by the continuation
    waitEvent,  \* waitEvent[t]: queue whose writable-buffer event t sleeps on
    wokenBy,    \* wokenBy[t]: queue whose signal woke t
    freedSlot,  \* freedSlot[t]: slot whose release raised the signal that woke t
                \* (the signal does not carry it; kept for the record only)
    parcels,    \* parcels[t]: response parcels written for the current call
    results,    \* results[t]: result codes pushed for the current call
    resumes,    \* resumes[t]: times the continuation of the current call ran
    retSlot,    \* retSlot[t]: slot reported by the last DequeueBuffer response
    fault,      \* "none", or the fatal defect that stopped the process
    rcode,      \* rcode[t]: the result code pushed last for the current call
    objects,    \* objects[t]: interfaces and handles pushed with the response
    retId,      \* retId[t]: display id, layer id or value pushed with the response
    displays,   \* names of the displays the registry created, in creation order
    layers,     \* layers[i]: display id of layer i, whose buffer queue has id i
    native_window, \* native_window[t]: buffer queue id in the NativeWindow
                \* parcel written for the current call, or NoId
    parcel      \* the Parcel object of the codec: kind, buffer, cursors, progress

vars == <<slotState, slotDesc, status, callq, calldims, waitEvent, wokenBy,
          parcels, results, resumes, retSlot, fault, rcode, objects, retId,
          displays, layers, freedSlot, native_window, parcel>>

registryVars == <<displays, layers>>

queueVars == <<slotState, slotDesc>>

contVars == <<callq, calldims, waitEvent, wokenBy>>

\* The single display name the registry recognizes.
RecognizedName == <<"D", "e", "f", "a", "u", "l", "t">>

\* struct Header of a parcel: four u32_le fields.
MakeHeader(data_size, data_offset, objects_size, objects_offset) ==
    [data_size |-> data_size, data_offset |-> data_offset,
     objects_size |-> objects_size, objects_offset |-> objects_offset]

\* No buffer returned by Serialize yet.
NoResult == [size |-> -1, header |-> MakeHeader(0, 0, 0, 0)]

\* A Parcel object right after the base class constructor: the buffer with its
\* size, the header in its first 16 bytes and the token length stored in its
\* data, both cursors at 0.  pending holds the steps left of the member
\* function that is running and calls the number of member functions the
\* owner called after construction; copied is the end of the furthest byte
\* range a read copied out of the buffer so far; result is the buffer the
\* last Serialize returned; payload is the size of the one value the
\* SerializeData of a single-value parcel type writes, 0 for the other types.
NewParcel(kind, size, header, token_length, pending) ==
    [kind |-> kind, size |-> size, header |-> header,
     token_length |-> token_length, read_index |-> 0, write_index |-> 0,
     pending |-> pending, calls |-> 0, error |-> "none", copied |-> 0,
     result |-> NoResult, payload |-> 0]

\* No parcel under construction.
NoParcel == NewParcel("none", 0, MakeHeader(0, 0, 0, 0), 0, <<>>)

\* The state in which the binder driver starts serving: the guest has opened
\* the display and created one layer, hence one buffer queue, per queue id.
Init ==
    /\ slotState = [q \in QueueIds |-> [s \in Slots(q) |-> "FREE"]]
    /\ slotDesc = [q \in QueueIds |-> [s \in Slots(q) |-> NoBuffer]]
    /\ status = [t \in Threads |-> "idle"]
    /\ callq = [t \in Threads |-> NoQueue]
    /\ calldims = [t \in Threads |-> NoBuffer]
    /\ waitEvent = [t \in Threads |-> NoQueue]
    /\ wokenBy = [t \in Threads |-> NoQueue]
    /\ parcels = [t \in Threads |-> 0]
    /\ results = [t \in Threads |-> 0]
    /\ resumes = [t \in Threads |-> 0]
    /\ retSlot = [t \in Threads |-> NoSlot]
    /\ fault = "none"
    /\ rcode = [t \in Threads |-> NoCode]
    /\ objects = [t \in Threads |-> 0]
    /\ retId = [t \in Threads |-> NoId]
    /\ displays = <<RecognizedName>>
    /\ layers = [i \in 1..Cardinality(QueueIds) |-> 1]
    /\ freedSlot = [t \in Threads |-> NoSlot]
    /\ native_window = [t \in Threads |-> NoId]
    /\ parcel = NoParcel

\* ------------------------------------------------- BufferQueue (section 4.3)

Min(S) == CHOOSE x \in S : \A y \in S : x <= y

\* The FREE slots of queue q whose bound descriptor has the requested dimensions.
EligibleSlots(q, dims) ==
    {s \in Slots(q) : slotState[q][s] = "FREE" /\ slotDesc[q][s] = dims}

\* DequeueBuffer(width, height): the first eligible slot in index order, or none.
BufferQueue_DequeueBuffer(q, dims) ==
    IF EligibleSlots(q, dims) = {} THEN NoSlot ELSE Min(EligibleSlots(q, dims))

\* The slot table after slot s of queue q moved to state st.
BufferQueue_Transition(q, s, st) == [slotState EXCEPT ![q][s] = st]

\* SetPreallocatedBuffer(slot, descriptor): binds the descriptor, whatever the state.
BufferQueue_SetPreallocatedBuffer(q, s, dims) == [slotDesc EXCEPT ![q][s] = dims]

\* QueueBuffer(slot, ...) requires the slot to be DEQUEUED, else InvalidState.
BufferQueue_QueueBufferAllowed(q, s) == slotState[q][s] = "DEQUEUED"

\* RequestBuffer(slot) fails NotFound if the slot has no bound descriptor.
BufferQueue_RequestBufferFound(q, s) == slotDesc[q][s] # NoBuffer

\* The "slot freed" signal of queue q: every thread sleeping on that event wakes.
BufferQueue_SignalStatus(q) ==
    [t \in Threads |->
        IF status[t] = "parked" /\ waitEvent[t] = q THEN "woken" ELSE status[t]]

BufferQueue_SignalWokenBy(q) ==
    [t \in Threads |->
        IF status[t] = "parked" /\ waitEvent[t] = q THEN q ELSE wokenBy[t]]

\* For the record: the slot s whose release raised the signal of queue q.
BufferQueue_SignalFreedSlot(q, s) ==
    [t \in Threads |->
        IF status[t] = "parked" /\ waitEvent[t] = q THEN s ELSE freedSlot[t]]

\* ------------------------------------------------ router: TransactParcel

\* enum class TransactionId.
RequestBuffer == 1
SetBufferCount == 2
DequeueBuffer == 3
DetachBuffer == 4
DetachNextBuffer == 5
AttachBuffer == 6
QueueBuffer == 7
CancelBuffer == 8
Query == 9
Connect == 10
Disconnect == 11
AllocateBuffers == 13
SetPreallocatedBuffer == 14

\* The largest transaction code a guest sends.
MaxCode == 15

\* The u32 transaction codes guests send: the enumerators and the values
\* between and around them.
TransactionCodes == 0..MaxCode

\* The codes whose branch of the dispatch decodes a typed request (or, for
\* CancelBuffer, only logs).
TypedCodes == {Connect, SetPreallocatedBuffer, DequeueBuffer, RequestBuffer,
               QueueBuffer, Query, CancelBuffer}

\* A thread may issue a transaction when it has no call in flight and the
\* process has not been stopped by a fatal defect.
CanCall(t) == fault = "none" /\ status[t] \in {"idle", "responded"}

\* A handler answers the call of thread t: np response parcels written, the
\* result code pushed, nobj interfaces or handles and the id pushed after it.
AnswerWindow(t, np, code, nobj, slot, id, queue_id) ==
    /\ status' = [status EXCEPT ![t] = "responded"]
    /\ parcels' = [parcels EXCEPT ![t] = np]
    /\ results' = [results EXCEPT ![t] = 1]
    /\ rcode' = [rcode EXCEPT ![t] = code]
    /\ objects' = [objects EXCEPT ![t] = nobj]
    /\ resumes' = [resumes EXCEPT ![t] = 0]
    /\ retSlot' = [retSlot EXCEPT ![t] = slot]
    /\ retId' = [retId EXCEPT ![t] = id]
    /\ freedSlot' = [freedSlot EXCEPT ![t] = NoSlot]
    /\ native_window' = [native_window EXCEPT ![t] = queue_id]
    /\ UNCHANGED <<contVars, parcel>>

\* A response that carries no NativeWindow parcel.
Answer(t, np, code, nobj, slot, id) ==
    AnswerWindow(t, np, code, nobj, slot, id, NoId)

\* ctx.WriteBuffer(response.Serialize()) followed by the final
\* ResponseBuilder push of TransactParcel: np parcels, RESULT_SUCCESS.
Respond(t, np, slot) == Answer(t, np, RESULT_SUCCESS, 0, slot, NoId)

\* A fatal defect in the call of thread t stops the whole process: the call
\* gets no parcel and no result code, and every guest thread ends with it, so
\* no continuation and no response record outlives the stop.
Abort(t, why) ==
    /\ fault' = why
    /\ status' = [u \in Threads |-> IF u = t THEN "aborted" ELSE "stopped"]
    /\ callq' = [u \in Threads |-> NoQueue]
    /\ calldims' = [u \in Threads |-> NoBuffer]
    /\ waitEvent' = [u \in Threads |-> NoQueue]
    /\ wokenBy' = [u \in Threads |-> NoQueue]
    /\ parcels' = [u \in Threads |-> 0]
    /\ results' = [u \in Threads |-> 0]
    /\ resumes' = [u \in Threads |-> 0]
    /\ retSlot' = [u \in Threads |-> NoSlot]
    /\ rcode' = [u \in Threads |-> NoCode]
    /\ objects' = [u \in Threads |-> 0]
    /\ retId' = [u \in Threads |-> NoId]
    /\ freedSlot' = [u \in Threads |-> NoSlot]
    /\ native_window' = [u \in Threads |-> NoId]
    /\ UNCHANGED parcel

TransactConnect(t, id) ==
    /\ CanCall(t)
    /\ Respond(t, 1, NoSlot)
    /\ UNCHANGED <<queueVars, fault, registryVars>>

\* Faulty variant: the descriptor is bound to slot 0 whatever the request names.
Mut_PreallocatedSlotZero(slot) == 0

\* The slot the SetPreallocatedBuffer handler passes on: request.data.slot.
PreallocatedSlot(slot) == slot

TransactSetPreallocatedBuffer(t, id, slot, dims) ==
    /\ CanCall(t)
    /\ slotDesc' = BufferQueue_SetPreallocatedBuffer(id, PreallocatedSlot(slot), dims)
    /\ Respond(t, 1, NoSlot)
    /\ UNCHANGED <<slotState, fault, registryVars>>

\* Faulty variant: width and height passed in the wrong order.
Mut_DequeueArgsSwapped(width, height) == <<height, width>>

\* The width and height the handler takes from the request and passes on.
DequeueArgs(width, height) == <<width, height>>

\* Faulty variant: the thread sleeps on the event of the other queue.
Mut_WaitEventOfOtherQueue(id) == IF id = 1 THEN 2 ELSE 1

\* The event the missed DequeueBuffer sleeps on: that of the queue named by id.
WaitEventOf(id) == id

TransactDequeueBuffer(t, id, width, height) ==
    /\ CanCall(t)
    /\ LET result == BufferQueue_DequeueBuffer(id, DequeueArgs(width, height))
       IN  IF result # NoSlot
           THEN /\ slotState' = BufferQueue_Transition(id, result, "DEQUEUED")
                /\ Respond(t, 1, result)
           ELSE \* SleepClientThread; control then reaches the final
                \* ResponseBuilder of TransactParcel.
                /\ status' = [status EXCEPT ![t] = "parked"]
                /\ callq' = [callq EXCEPT ![t] = id]
                /\ calldims' = [calldims EXCEPT ![t] = DequeueArgs(width, height)]
                /\ waitEvent' = [waitEvent EXCEPT ![t] = WaitEventOf(id)]
                /\ wokenBy' = [wokenBy EXCEPT ![t] = NoQueue]
                /\ parcels' = [parcels EXCEPT ![t] = 0]
                /\ results' = [results EXCEPT ![t] = 1]
                /\ resumes' = [resumes EXCEPT ![t] = 0]
                /\ retSlot' = [retSlot EXCEPT ![t] = NoSlot]
                /\ rcode' = [rcode EXCEPT ![t] = RESULT_SUCCESS]
                /\ objects' = [objects EXCEPT ![t] = 0]
                /\ retId' = [retId EXCEPT ![t] = NoId]
                /\ freedSlot' = [freedSlot EXCEPT ![t] = NoSlot]
                /\ UNCHANGED <<slotState, native_window, parcel>>
    /\ UNCHANGED <<slotDesc, fault, registryVars>>

\* Faulty variant: the callback retries on the other queue.
Mut_ContinuationOtherQueue(id) == IF id = 1 THEN 2 ELSE 1

\* The queue the wake callback resolves again from the captured id.
ContinuationQueue(id) == id

\* The wake callback given to SleepClientThread.  On a miss the ASSERT_MSG
\* fails and stops the process before result->first is read.
WakeCallback(t) ==
    /\ fault = "none"
    /\ status[t] = "woken"
    /\ LET buffer_queue == ContinuationQueue(callq[t])
           result == BufferQueue_DequeueBuffer(buffer_queue, calldims[t])
       IN  IF result # NoSlot
           THEN /\ slotState' = BufferQueue_Transition(buffer_queue, result, "DEQUEUED")
                /\ status' = [status EXCEPT ![t] = "responded"]
                /\ parcels' = [parcels EXCEPT ![t] = @ + 1]
                /\ results' = [results EXCEPT ![t] = @ + 1]
                /\ retSlot' = [retSlot EXCEPT ![t] = result]
                /\ resumes' = [resumes EXCEPT ![t] = @ + 1]
                /\ callq' = [callq EXCEPT ![t] = NoQueue]
                /\ calldims' = [calldims EXCEPT ![t] = NoBuffer]
                /\ waitEvent' = [waitEvent EXCEPT ![t] = NoQueue]
                /\ wokenBy' = [wokenBy EXCEPT ![t] = NoQueue]
                /\ rcode' = [rcode EXCEPT ![t] = RESULT_SUCCESS]
                /\ UNCHANGED <<fault, objects, retId, freedSlot, native_window,
                               parcel>>
           ELSE \* ASSERT_MSG(result != std::nullopt, ...) fails
                /\ Abort(t, "AssertDequeue")
                /\ UNCHANGED slotState
    /\ UNCHANGED <<slotDesc, registryVars>>

\* RequestBuffer takes a reference to the slot's descriptor and answers it; a
\* slot without descriptor is the queue's NotFound failure.
TransactRequestBuffer(t, id, slot) ==
    /\ CanCall(t)
    /\ IF BufferQueue_RequestBufferFound(id, slot)
       THEN Respond(t, 1, NoSlot) /\ fault' = fault
       ELSE Abort(t, "NotFound")
    /\ UNCHANGED <<queueVars, registryVars>>

\* Faulty variant: slot 0 is passed whatever the request names.
Mut_QueueBufferSlotZero(slot) == 0

\* The slot the QueueBuffer handler passes to the queue: request.data.slot.
QueueBufferSlot(slot) == slot

TransactQueueBuffer(t, id, slot) ==
    /\ CanCall(t)
    /\ IF BufferQueue_QueueBufferAllowed(id, QueueBufferSlot(slot))
       THEN /\ slotState' = BufferQueue_Transition(id, QueueBufferSlot(slot), "QUEUED")
            /\ Respond(t, 1, NoSlot)
            /\ fault' = fault
       ELSE /\ Abort(t, "InvalidState")
            /\ UNCHANGED slotState
    /\ UNCHANGED <<slotDesc, registryVars>>

\* IGBPQueueBufferResponseParcel(width, height): the two arguments, every
\* other field of Data left at its initial 0.
IGBPQueueBufferResponseParcel(width, height) ==
    [width |-> width, height |-> height, transform_hint |-> 0,
     num_pending_buffers |-> 0, status |-> 0]

\* The response the QueueBuffer handler serializes.
QueueBufferResponse == IGBPQueueBufferResponseParcel(1280, 720)

\* The queue's pending-buffer count: the buffers queued and not yet acquired.
BufferQueue_PendingBuffers(states, q) ==
    Cardinality({s \in Slots(q) : states[q][s] = "QUEUED"})

TransactQuery(t, id) ==
    /\ CanCall(t)
    /\ Respond(t, 1, NoSlot)
    /\ UNCHANGED <<queueVars, fault, registryVars>>

\* CancelBuffer is stubbed: it logs, writes no parcel and pushes the result.
TransactCancelBuffer(t, id, slot) ==
    /\ CanCall(t)
    /\ Respond(t, 0, NoSlot)
    /\ UNCHANGED <<queueVars, fault, registryVars>>

\* Faulty variant: the branch tests DetachNextBuffer in place of Disconnect.
Mut_DetachNextAccepted(code) == code = DetachNextBuffer \/ code = DetachBuffer

\* Faulty variant: every code without a typed request is answered.
Mut_EmptyParcelForAnyCode(code) == code \notin TypedCodes

\* The test of the branch answering the empty parcel.
IsEmptyParcelCode(code) == code = Disconnect \/ code = DetachBuffer

\* Disconnect and DetachBuffer read the request and answer the empty parcel.
TransactDetachBuffer(t, id, code) ==
    /\ CanCall(t)
    /\ IsEmptyParcelCode(code)
    /\ Respond(t, 1, NoSlot)
    /\ UNCHANGED <<queueVars, fault, registryVars>>

\* The final else of the dispatch: ASSERT_MSG(false, "Unimplemented") stops
\* the process before the ResponseBuilder that follows the dispatch.
TransactUnimplemented(t, id, code) ==
    /\ CanCall(t)
    /\ code \notin TypedCodes
    /\ ~IsEmptyParcelCode(code)
    /\ Abort(t, "Unimplemented")
    /\ UNCHANGED <<queueVars, registryVars>>

\* A call whose code has no typed request: one of the last two branches.
TransactUntyped(t, id, code) ==
    TransactDetachBuffer(t, id, code) \/ TransactUnimplemented(t, id, code)

\* The queue ids a guest can send that FindBufferQueue does not resolve.
UnregisteredIds == {3}

\* Faulty variant: the queue is resolved only where a branch uses it.
Mut_QueueResolvedOnUse(code) ==
    code \notin {Connect, CancelBuffer, Disconnect, DetachBuffer}

\* nv_flinger->FindBufferQueue(id) stands before the dispatch on the
\* transaction code: the queue is resolved whatever the code is.
QueueResolvedFirst(code) == TRUE

\* TransactParcel with an id no buffer queue is registered under: the lookup
\* is the fatal defect of a missing id.  (A branch entered without the
\* lookup would answer as it does for any queue.)
TransactMissingQueue(t, id, code) ==
    /\ CanCall(t)
    /\ id \notin QueueIds
    /\ IF QueueResolvedFirst(code)
       THEN Abort(t, "MissingQueue")
       ELSE Respond(t, IF code = CancelBuffer THEN 0 ELSE 1, NoSlot) /\ fault' = fault
    /\ UNCHANGED <<queueVars, registryVars>>

\* ---------------------------------------- router: the other binder commands

\* The reference-count deltas a guest sends.
AddVals == {-1, 1}

\* Faulty variant: a negative delta is refused.
Mut_AdjustRefcountRefusesRelease(addval) ==
    IF addval < 0 THEN ERR_OPERATION_FAILED ELSE RESULT_SUCCESS

\* The result AdjustRefcount pushes: RESULT_SUCCESS whatever was popped.
AdjustRefcountResult(addval) == RESULT_SUCCESS

\* AdjustRefcount is stubbed: it pops id, addval and type, resolves no queue
\* (id may name none) and pushes the result.
AdjustRefcount(t, id, addval) ==
    /\ CanCall(t)
    /\ Answer(t, 0, AdjustRefcountResult(addval), 0, NoSlot, NoId)
    /\ UNCHANGED <<queueVars, fault, registryVars>>

\* GetNativeHandle resolves the queue and pushes RESULT_SUCCESS with a copy of
\* the queue's buffer wait event.
GetNativeHandle(t, id) ==
    /\ CanCall(t)
    /\ Answer(t, 0, RESULT_SUCCESS, 1, NoSlot, NoId)
    /\ UNCHANGED <<queueVars, fault, registryVars>>

\* ------------------------------------------------------------- consumer

ConsumerAcquire(q, s) ==
    /\ fault = "none"
    /\ slotState[q][s] = "QUEUED"
    /\ slotState' = BufferQueue_Transition(q, s, "ACQUIRED")
    /\ UNCHANGED <<slotDesc, status, contVars, parcels, results, resumes,
                   retSlot, fault, rcode, objects, retId, registryVars,
                   freedSlot, native_window, parcel>>

\* Faulty variant: the release leaves the slot in a fifth state.
Mut_ReleaseToReleased(q, s) == BufferQueue_Transition(q, s, "RELEASED")

\* The consumer's release: ACQUIRED -> FREE.
BufferQueue_Release(q, s) == BufferQueue_Transition(q, s, "FREE")

ConsumerRelease(q, s) ==
    /\ fault = "none"
    /\ slotState[q][s] = "ACQUIRED"
    /\ slotState' = BufferQueue_Release(q, s)
    /\ status' = BufferQueue_SignalStatus(q)
    /\ wokenBy' = BufferQueue_SignalWokenBy(q)
    /\ freedSlot' = BufferQueue_SignalFreedSlot(q, s)
    /\ UNCHANGED <<slotDesc, callq, calldims, waitEvent, parcels, results,
                   resumes, retSlot, fault, rcode, objects, retId, registryVars,
                   native_window, parcel>>

\* ------------------------------------------ DisplayRegistry (section 4.4)

\* The ids of the displays created so far: positions in creation order.
DisplayIds == 1..Len(displays)

\* open_display(name): the id of the display of that name, which the first
\* call creates; none for a name that is not recognized.
NVFlinger_OpenDisplay(name) ==
    IF name # RecognizedName THEN NoId
    ELSE IF \E d \in DisplayIds : displays[d] = name
         THEN CHOOSE d \in DisplayIds : displays[d] = name
         ELSE Len(displays) + 1

\* The displays after open_display(name).
NVFlinger_DisplaysAfterOpen(name) ==
    IF name = RecognizedName /\ ~(\E d \in DisplayIds : displays[d] = name)
    THEN Append(displays, name)
    ELSE displays

\* create_layer(display_id): the id of the new layer, none for an unknown display.
NVFlinger_CreateLayer(display_id) ==
    IF display_id \in DisplayIds THEN Len(layers) + 1 ELSE NoId

\* The layers after create_layer(display_id).
NVFlinger_LayersAfterCreate(display_id) ==
    IF display_id \in DisplayIds THEN Append(layers, display_id) ELSE layers

\* find_buffer_queue_id(display_id, layer_id): the queue of that layer of that
\* display, none if either key is absent.
NVFlinger_FindBufferQueueId(display_id, layer_id, ls) ==
    IF layer_id \in 1..Len(ls) /\ ls[layer_id] = display_id THEN layer_id ELSE NoId

\* ------------------------------------------------ the display services

\* enum class Permission and enum class Policy (vi.h).
Permission_User == 0
Permission_System == 1
Permission_Manager == 2
Policy_User == 0
Policy_Compositor == 1

\* The largest caller class and policy value tried, one past the enumerators.
MaxPermission == 3
MaxPolicy == 2

\* Faulty variant: a User caller may ask for the Compositor policy as well.
Mut_UserMayRequestCompositor(permission, policy) ==
    policy = Policy_User \/ policy = Policy_Compositor

IsValidServiceAccess(permission, policy) ==
    IF permission = Permission_User
    THEN policy = Policy_User
    ELSE IF permission = Permission_System \/ permission = Permission_Manager
         THEN policy = Policy_User \/ policy = Policy_Compositor
         ELSE FALSE

\* detail::GetDisplayServiceImpl: the IApplicationDisplayService interface is
\* pushed only when the access is valid.
GetDisplayService(t, permission, policy) ==
    /\ CanCall(t)
    /\ IF ~IsValidServiceAccess(permission, policy)
       THEN Answer(t, 0, ERR_PERMISSION_DENIED, 0, NoSlot, NoId)
       ELSE Answer(t, 0, RESULT_SUCCESS, 1, NoSlot, NoId)
    /\ UNCHANGED <<queueVars, fault, registryVars>>

\* The NUL character of a name buffer.
NUL == "NUL"

\* Length of the name buffer of OpenDisplay and OpenLayer (0x40 in the code).
NameBufLen == 8

\* The name followed by the character c up to the end of the buffer.
Fill(name, c) == name \o [i \in 1..(NameBufLen - Len(name)) |-> c]

\* Faulty variant: OpenDefaultDisplay names another display.
Mut_EdidDisplayName == <<"E", "d", "i", "d">>

\* The literal "Default" of OpenDefaultDisplay and of the assertion.
DefaultDisplayName == <<"D", "e", "f", "a", "u", "l", "t">>

\* The name buffers guests send: "Default" NUL-padded, "Default" followed by
\* other characters up to the end, another name, the empty name, a NUL in the
\* middle of "Default", and "Default" NUL followed by other characters.
NameBufs ==
    { Fill(DefaultDisplayName, NUL),
      Fill(DefaultDisplayName, "s"),
      Fill(<<"E", "d", "i", "d">>, NUL),
      Fill(<<>>, NUL),
      Fill(<<"D", "e", "f", NUL, "u", "l", "t">>, NUL),
      Fill(DefaultDisplayName \o <<NUL>>, "x") }

\* name.find('\0') and remove_suffix: the characters before the first NUL.
TrimAtNul(name) ==
    LET nuls == {i \in 1..Len(name) : name[i] = NUL}
    IN  IF nuls = {} THEN name ELSE SubSeq(name, 1, Min(nuls) - 1)

OpenDisplayImpl(t, name) ==
    /\ CanCall(t)
    /\ LET trimmed == TrimAtNul(name)
       IN  IF trimmed # DefaultDisplayName
           THEN \* ASSERT_MSG(name == "Default", ...) fails
                /\ Abort(t, "AssertDisplayName")
                /\ UNCHANGED displays
           ELSE LET display_id == NVFlinger_OpenDisplay(trimmed)
                IN  /\ displays' = NVFlinger_DisplaysAfterOpen(trimmed)
                    /\ IF display_id = NoId
                       THEN Answer(t, 0, ERR_NOT_FOUND, 0, NoSlot, NoId)
                       ELSE Answer(t, 0, RESULT_SUCCESS, 0, NoSlot, display_id)
                    /\ fault' = fault
    /\ UNCHANGED <<queueVars, layers>>

\* OpenDisplay passes the whole 0x40-byte buffer as the name.
OpenDisplay(t, name_buf) == OpenDisplayImpl(t, name_buf)

OpenDefaultDisplay(t) == OpenDisplayImpl(t, DefaultDisplayName)

\* The most layers the guest creates.
MaxLayers == 2

\* The largest display id and layer id a guest names.
MaxDisplayId == 2

\* Faulty variant: the window is built for the layer id the guest named
\* without looking its queue up.
Mut_OpenLayerSkipsQueueLookup(t, name_buf, layer_id) ==
    /\ CanCall(t)
    /\ LET display_name == TrimAtNul(name_buf)
           display_id == NVFlinger_OpenDisplay(display_name)
       IN  /\ displays' = NVFlinger_DisplaysAfterOpen(display_name)
           /\ IF display_id = NoId
              THEN Answer(t, 0, ERR_NOT_FOUND, 0, NoSlot, NoId)
              ELSE AnswerWindow(t, 1, RESULT_SUCCESS, 0, NoSlot, NoId, layer_id)
    /\ UNCHANGED <<queueVars, fault, layers>>

\* OpenLayer: the display is looked up by the name before the first NUL (and
\* created by that lookup if it is the first), then the layer's queue.
OpenLayer(t, name_buf, layer_id) ==
    /\ CanCall(t)
    /\ LET display_name == TrimAtNul(name_buf)
           display_id == NVFlinger_OpenDisplay(display_name)
       IN  /\ displays' = NVFlinger_DisplaysAfterOpen(display_name)
           /\ IF display_id = NoId
              THEN Answer(t, 0, ERR_NOT_FOUND, 0, NoSlot, NoId)
              ELSE LET buffer_queue_id ==
                           NVFlinger_FindBufferQueueId(display_id, layer_id, layers)
                   IN  IF buffer_queue_id = NoId
                       THEN Answer(t, 0, ERR_NOT_FOUND, 0, NoSlot, NoId)
                       ELSE AnswerWindow(t, 1, RESULT_SUCCESS, 0, NoSlot, NoId,
                                         buffer_queue_id)
    /\ UNCHANGED <<queueVars, fault, layers>>

\* Faulty variant: the layer id is pushed with success without the test.
Mut_LayerResultUnchecked(layer_id) == RESULT_SUCCESS

\* The result CreateManagedLayer pushes for the optional layer id.
ManagedLayerResult(layer_id) ==
    IF layer_id = NoId THEN ERR_NOT_FOUND ELSE RESULT_SUCCESS

CreateManagedLayer(t, display) ==
    /\ CanCall(t)
    /\ display \in DisplayIds => Len(layers) < MaxLayers
    /\ LET layer_id == NVFlinger_CreateLayer(display)
       IN  /\ layers' = NVFlinger_LayersAfterCreate(display)
           /\ Answer(t, 0, ManagedLayerResult(layer_id), 0, NoSlot, layer_id)
    /\ UNCHANGED <<queueVars, fault, displays>>

CreateStrayLayer(t, display_id) ==
    /\ CanCall(t)
    /\ display_id \in DisplayIds => Len(layers) < MaxLayers
    /\ LET layer_id == NVFlinger_CreateLayer(display_id)
       IN  /\ layers' = NVFlinger_LayersAfterCreate(display_id)
           /\ IF layer_id = NoId
              THEN Answer(t, 0, ERR_NOT_FOUND, 0, NoSlot, NoId)
              ELSE LET buffer_queue_id ==
                           NVFlinger_FindBufferQueueId(display_id, layer_id, layers')
                   IN  IF buffer_queue_id = NoId
                       THEN Answer(t, 0, ERR_NOT_FOUND, 0, NoSlot, NoId)
                       ELSE AnswerWindow(t, 1, RESULT_SUCCESS, 0, NoSlot, layer_id,
                                         buffer_queue_id)
    /\ UNCHANGED <<queueVars, fault, displays>>

\* enum class NintendoScaleMode.
NintendoScaleMode_None == 0
NintendoScaleMode_Freeze == 1
NintendoScaleMode_ScaleToWindow == 2
NintendoScaleMode_ScaleAndCrop == 3
NintendoScaleMode_PreserveAspectRatio == 4

\* The largest scaling mode a guest sends.
MaxScaleMode == 6

\* Faulty variant: an out-of-range mode is reported like an unaccepted one.
Mut_OutOfRangeIsUnsupported(scaling_mode) ==
    IF scaling_mode \in {NintendoScaleMode_ScaleToWindow,
                         NintendoScaleMode_PreserveAspectRatio}
    THEN RESULT_SUCCESS
    ELSE ERR_UNSUPPORTED

\* The result SetLayerScalingMode pushes.
ScalingModeResult(scaling_mode) ==
    IF scaling_mode > NintendoScaleMode_PreserveAspectRatio
    THEN ERR_OPERATION_FAILED
    ELSE IF /\ scaling_mode # NintendoScaleMode_ScaleToWindow
            /\ scaling_mode # NintendoScaleMode_PreserveAspectRatio
         THEN ERR_UNSUPPORTED
         ELSE RESULT_SUCCESS

SetLayerScalingMode(t, scaling_mode) ==
    /\ CanCall(t)
    /\ Answer(t, 0, ScalingModeResult(scaling_mode), 0, NoSlot, NoId)
    /\ UNCHANGED <<queueVars, fault, registryVars>>

\* enum class ConvertedScaleMode.
ConvertedScaleMode_Freeze == 0
ConvertedScaleMode_ScaleToWindow == 1
ConvertedScaleMode_ScaleAndCrop == 2
ConvertedScaleMode_None == 3
ConvertedScaleMode_PreserveAspectRatio == 4

\* Faulty variant: the default case reports a code of its own.
Mut_ConvertDefaultOwnCode(mode) ==
    IF mode \in 0..4 THEN RESULT_SUCCESS ELSE 2

\* The code of the ResultVal ConvertScalingModeImpl returns.
ConvertScalingModeCode(mode) ==
    IF mode \in {NintendoScaleMode_None, NintendoScaleMode_Freeze,
                 NintendoScaleMode_ScaleToWindow, NintendoScaleMode_ScaleAndCrop,
                 NintendoScaleMode_PreserveAspectRatio}
    THEN RESULT_SUCCESS
    ELSE ERR_OPERATION_FAILED

\* The value of the ResultVal ConvertScalingModeImpl returns.
ConvertScalingModeValue(mode) ==
    CASE mode = NintendoScaleMode_None -> ConvertedScaleMode_None
      [] mode = NintendoScaleMode_Freeze -> ConvertedScaleMode_Freeze
      [] mode = NintendoScaleMode_ScaleToWindow -> ConvertedScaleMode_ScaleToWindow
      [] mode = NintendoScaleMode_ScaleAndCrop -> ConvertedScaleMode_ScaleAndCrop
      [] mode = NintendoScaleMode_PreserveAspectRatio ->
            ConvertedScaleMode_PreserveAspectRatio
      [] OTHER -> NoId

\* ConvertScalingMode pushes the converted mode after RESULT_SUCCESS, or the
\* failure code alone.
ConvertScalingMode(t, mode) ==
    /\ CanCall(t)
    /\ Answer(t, 0, ConvertScalingModeCode(mode), 0, NoSlot,
              ConvertScalingModeValue(mode))
    /\ UNCHANGED <<queueVars, fault, registryVars>>

\* -------------------------------------------------- parcel codec (Parcel)

\* static constexpr std::size_t DefaultBufferSize.
DefaultBufferSize == 64

\* sizeof(Header) and sizeof(u32_le).
SizeofHeader == 16

SizeofU32 == 4

\* sizeof(char16_t) of the interface token units.
SizeofU16 == 2

\* sizeof of the request and response Data structs (static_asserts of vi.cpp).
SizeofNativeWindowData == 40
SizeofConnectRequestData == 12
SizeofConnectResponseData == 20
SizeofSetPreallocatedData == 16
SizeofDequeueRequestData == 20
SizeofQueueRequestData == 96
SizeofQueueResponseData == 20

\* sizeof(Service::Nvidia::MultiFence) and sizeof(NVFlinger::IGBPBuffer).
SizeofMultiFence == 36
SizeofIGBPBuffer == 364

\* The largest guest buffer, token length and directly read or written value.
MaxBufferSize == 40
MaxTokenLength == 2
MaxValueSize == 4

\* The number of member functions the owner of a parcel calls on it.
MaxCalls == 3

\* The modulus of u32 arithmetic, scaled down to 2^16: every size and cursor
\* of the model stays far below it, so only the wrap of the largest value
\* depends on it.
U32 == 65536

\* The sizes of guest buffers handed to request parcels.
BufferSizes == 0..MaxBufferSize

\* The data_offset a guest header can carry: the regular 16, 0, unaligned
\* values and the largest u32.
DataOffsets == {0, 16, 17, 18, U32 - 1}

\* The token length a guest buffer can carry, the largest u32 included.
TokenLengths == (0..MaxTokenLength) \cup {U32 - 1}

\* sizeof(T) of the values read or written directly.
ValueSizes == 1..MaxValueSize

\* sizeof(T) of every Read<T> and of every Write<T> that can run.
ReadSizes == ValueSizes \cup {SizeofConnectRequestData, SizeofSetPreallocatedData,
                              SizeofDequeueRequestData, SizeofQueueRequestData,
                              SizeofIGBPBuffer}

WriteSizes == ValueSizes \cup {SizeofNativeWindowData, SizeofConnectResponseData,
                               SizeofMultiFence, SizeofIGBPBuffer}

RequestKinds == {"IGBPConnectRequestParcel", "IGBPSetPreallocatedBufferRequestParcel",
                 "IGBPDequeueBufferRequestParcel", "IGBPRequestBufferRequestParcel",
                 "IGBPQueueBufferRequestParcel", "IGBPQueryRequestParcel"}

ResponseKinds == {"NativeWindow", "IGBPConnectResponseParcel",
                  "IGBPSetPreallocatedBufferResponseParcel",
                  "IGBPDequeueBufferResponseParcel",
                  "IGBPRequestBufferResponseParcel",
                  "IGBPQueueBufferResponseParcel", "IGBPQueryResponseParcel",
                  "IGBPEmptyResponseParcel"}

\* Common::AlignUp(value, size).
AlignUp(value, size) == ((value + size - 1) \div size) * size

\* Faulty variant: the loop runs while ch is below length, one unit short.
Mut_TokenWithoutLastUnit(length) ==
    <<<<"Read", SizeofU32>>, <<"Read", SizeofU32>>>>
    \o [ch \in 1..(IF length = U32 - 1 THEN 0 ELSE length) |->
           <<"ReadUnaligned", SizeofU16>>]
    \o <<<<"AlignUp", 4>>>>

\* The steps of ReadInterfaceToken for a stored length: Read<u32_le> twice,
\* then ReadUnaligned<u16_le> while the u32 counter ch is below length + 1
\* (a u32 sum), then the round-up.
ReadInterfaceToken(length) ==
    <<<<"Read", SizeofU32>>, <<"Read", SizeofU32>>>>
    \o [ch \in 1..((length + 1) % U32) |-> <<"ReadUnaligned", SizeofU16>>]
    \o <<<<"AlignUp", 4>>>>

\* DeserializeData of each request parcel: the token, then the values read.
DeserializeData(kind, length) ==
    CASE kind = "IGBPConnectRequestParcel" ->
            ReadInterfaceToken(length) \o <<<<"Read", SizeofConnectRequestData>>>>
      [] kind = "IGBPSetPreallocatedBufferRequestParcel" ->
            ReadInterfaceToken(length)
            \o <<<<"Read", SizeofSetPreallocatedData>>, <<"Read", SizeofIGBPBuffer>>>>
      [] kind = "IGBPDequeueBufferRequestParcel" ->
            ReadInterfaceToken(length) \o <<<<"Read", SizeofDequeueRequestData>>>>
      [] kind = "IGBPRequestBufferRequestParcel" ->
            ReadInterfaceToken(length) \o <<<<"Read", SizeofU32>>>>
      [] kind = "IGBPQueueBufferRequestParcel" ->
            ReadInterfaceToken(length) \o <<<<"Read", SizeofQueueRequestData>>>>
      [] kind = "IGBPQueryRequestParcel" ->
            ReadInterfaceToken(length) \o <<<<"Read", SizeofU32>>>>
      [] OTHER -> <<>>

\* The steps of WriteObject(val): Write(size), Write<u32_le>(0), Write(val).
WriteObject(size) ==
    <<<<"Write", SizeofU32>>, <<"Write", SizeofU32>>, <<"Write", size>>>>

\* SerializeData of each response parcel: the values written.
SerializeData(kind) ==
    CASE kind = "NativeWindow" -> <<<<"Write", SizeofNativeWindowData>>>>
      [] kind = "IGBPConnectResponseParcel" ->
            <<<<"Write", SizeofConnectResponseData>>>>
      [] kind = "IGBPSetPreallocatedBufferResponseParcel" -> <<<<"Write", SizeofU32>>>>
      [] kind = "IGBPDequeueBufferResponseParcel" ->
            <<<<"Write", SizeofU32>>, <<"Write", SizeofU32>>>>
            \o WriteObject(SizeofMultiFence) \o <<<<"Write", SizeofU32>>>>
      [] kind = "IGBPRequestBufferResponseParcel" ->
            <<<<"Write", SizeofU32>>>> \o WriteObject(SizeofIGBPBuffer)
            \o <<<<"Write", SizeofU32>>>>
      [] kind = "IGBPQueueBufferResponseParcel" ->
            <<<<"Write", SizeofQueueResponseData>>>>
      [] kind = "IGBPQueryResponseParcel" -> <<<<"Write", SizeofU32>>>>
      [] kind = "IGBPEmptyResponseParcel" -> <<<<"Write", SizeofU32>>>>
      [] OTHER -> <<>>

\* A request parcel constructed from a guest buffer: Parcel(std::move(buffer))
\* has run and the constructor is about to call Deserialize.
RequestParcel(kind, size, data_offset, length) ==
    NewParcel(kind, size, MakeHeader(0, data_offset, 0, 0), length,
              <<<<"Deserialize", 0>>>>)

\* A response parcel: Parcel() gave it a zeroed buffer of DefaultBufferSize.
ResponseParcel(kind) ==
    NewParcel(kind, DefaultBufferSize, MakeHeader(0, 0, 0, 0), 0, <<>>)

\* The sizes of the value of a single-value parcel type: the value ends 4
\* bytes before the end of the default buffer, 3 bytes before it, exactly at
\* it, and one byte behind it.
PayloadSizes ==
    { DefaultBufferSize - SizeofHeader - 4, DefaultBufferSize - SizeofHeader - 3,
      DefaultBufferSize - SizeofHeader, DefaultBufferSize - SizeofHeader + 1 }

\* A response parcel of a type derived from Parcel whose SerializeData is one
\* Write<T>(val) with sizeof(T) = size.
PayloadParcel(size) == [ResponseParcel("Parcel") EXCEPT !.payload = size]

\* The SerializeData of a single-value parcel type; nothing for the others.
PayloadData(payload) ==
    IF payload = 0 THEN <<>> ELSE <<<<"Write", payload>>>>

\* The member function step op is the next to run: the next step of the
\* member function in progress.
Runs(op) ==
    /\ parcel.error = "none"
    /\ parcel.pending # <<>>
    /\ Head(parcel.pending) = op

\* No member function is in progress: the owner of the parcel may call one.
Callable ==
    /\ parcel.kind # "none"
    /\ parcel.error = "none"
    /\ parcel.pending = <<>>
    /\ parcel.calls < MaxCalls

\* The call count after the step: a step taken with nothing pending is a call.
Calls == IF parcel.pending = <<>> THEN parcel.calls + 1 ELSE parcel.calls

\* The steps left once the current one is done.
Rest == IF parcel.pending = <<>> THEN <<>> ELSE Tail(parcel.pending)

\* A failed ASSERT stops the process: nothing of the parcel changes any more.
Fail(why) ==
    parcel' = [parcel EXCEPT !.error = why, !.pending = <<>>, !.calls = Calls]

\* Everything but the parcel.
serviceVars == <<slotState, slotDesc, status, callq, calldims, waitEvent, wokenBy,
                 parcels, results, resumes, retSlot, fault, rcode, objects, retId,
                 displays, layers, freedSlot, native_window>>

\* Faulty variant: the header is read from a buffer of exactly its size.
Mut_HeaderFitsExactly(size) == size >= SizeofHeader

\* ASSERT(buffer.size() > sizeof(Header)).
DeserializeAllowed(size) == size > SizeofHeader

\* Deserialize(): the ASSERT, the header copied out of the buffer, the read
\* cursor set to its data_offset, then DeserializeData().
Deserialize ==
    /\ Runs(<<"Deserialize", 0>>)
    /\ IF DeserializeAllowed(parcel.size)
       THEN parcel' = [parcel EXCEPT
                          !.read_index = parcel.header.data_offset,
                          !.copied = SizeofHeader,
                          !.pending = DeserializeData(parcel.kind, parcel.token_length)
                                      \o Rest]
       ELSE Fail("ProtocolViolation")
    /\ UNCHANGED serviceVars

\* Faulty variant: the range check of a read compares the start only.
Mut_ReadStartInside(read_index, n, size) == read_index <= size

\* ASSERT(read_index + sizeof(T) <= buffer.size()) of the three reads.
ReadAllowed(read_index, n, size) == read_index + n <= size

\* Faulty variant: the cursor is left where the value ended.
Mut_ReadCursorUnaligned(read_index, n) == read_index + n

\* read_index += sizeof(T); read_index = Common::AlignUp(read_index, 4).
ReadCursorAfter(read_index, n) == AlignUp(read_index + n, 4)

\* The parcel after n bytes were copied out at the read cursor and the
\* cursor moved to next.
AfterRead(n, next) ==
    [parcel EXCEPT !.read_index = next,
                   !.copied = IF parcel.read_index + n > @
                              THEN parcel.read_index + n ELSE @,
                   !.pending = Rest, !.calls = Calls]

\* Read<T>() with sizeof(T) = n, as a step of DeserializeData or called
\* directly.
Read(n) ==
    /\ Runs(<<"Read", n>>) \/ (Callable /\ n \in ValueSizes)
    /\ IF ReadAllowed(parcel.read_index, n, parcel.size)
       THEN parcel' = AfterRead(n, ReadCursorAfter(parcel.read_index, n))
       ELSE Fail("ProtocolViolation")
    /\ UNCHANGED serviceVars

\* ReadUnaligned<T>(): the same without the round-up; a step of
\* ReadInterfaceToken only.
ReadUnaligned(n) ==
    /\ Runs(<<"ReadUnaligned", n>>)
    /\ IF ReadAllowed(parcel.read_index, n, parcel.size)
       THEN parcel' = AfterRead(n, parcel.read_index + n)
       ELSE Fail("ProtocolViolation")
    /\ UNCHANGED serviceVars

\* The round-up that ends ReadInterfaceToken.
AlignReadIndex ==
    /\ Runs(<<"AlignUp", 4>>)
    /\ parcel' = [parcel EXCEPT !.read_index = AlignUp(parcel.read_index, 4),
                                !.pending = Rest]
    /\ UNCHANGED serviceVars

\* ReadBlock(length), called directly.
ReadBlock(length) ==
    /\ Callable
    /\ IF ReadAllowed(parcel.read_index, length, parcel.size)
       THEN parcel' = AfterRead(length, ReadCursorAfter(parcel.read_index, length))
       ELSE Fail("ProtocolViolation")
    /\ UNCHANGED serviceVars

\* if (buffer.size() < write_index + sizeof(T)) buffer.resize(...).
SizeAfterWrite(size, write_index, n) ==
    IF size < write_index + n THEN size + n + DefaultBufferSize ELSE size

\* write_index += sizeof(T); write_index = Common::AlignUp(write_index, 4).
WriteCursorAfter(write_index, n) == AlignUp(write_index + n, 4)

\* Write<T>(val) with sizeof(T) = n, as a step of SerializeData or
\* WriteObject, or called directly.
Write(n) ==
    /\ Runs(<<"Write", n>>) \/ (Callable /\ n \in ValueSizes)
    /\ parcel' = [parcel EXCEPT
                     !.size = SizeAfterWrite(@, parcel.write_index, n),
                     !.write_index = WriteCursorAfter(@, n),
                     !.pending = Rest, !.calls = Calls]
    /\ UNCHANGED serviceVars

\* WriteObject<T>(val) with sizeof(T) = n, called directly: its three writes.
CallWriteObject(n) ==
    /\ Callable
    /\ parcel' = [parcel EXCEPT !.pending = WriteObject(n), !.calls = Calls]
    /\ UNCHANGED serviceVars

\* Faulty variant: Serialize runs whatever was read before.
Mut_SerializeAlways(read_index) == TRUE

\* ASSERT(read_index == 0).
SerializeAllowed(read_index) == read_index = 0

\* Serialize() up to SerializeData(): the ASSERT and the write cursor put
\* behind the header.
Serialize ==
    /\ Callable
    /\ IF SerializeAllowed(parcel.read_index)
       THEN parcel' = [parcel EXCEPT
                          !.write_index = SizeofHeader,
                          !.pending = SerializeData(parcel.kind)
                                      \o PayloadData(parcel.payload)
                                      \o <<<<"Header", 0>>>>,
                          !.calls = Calls]
       ELSE Fail("SerializeAfterRead")
    /\ UNCHANGED serviceVars

\* Faulty variant: the header counts itself into data_size.
Mut_HeaderCountsItself(write_index) ==
    MakeHeader(write_index % U32, SizeofHeader, 4, (SizeofHeader + write_index) % U32)

\* The header Serialize computes from the write cursor SerializeData left.
SerializedHeader(write_index) ==
    MakeHeader((write_index - SizeofHeader) % U32, SizeofHeader, 4,
               (SizeofHeader + ((write_index - SizeofHeader) % U32)) % U32)

\* The end of Serialize(): the header is computed, copied to the start of the
\* buffer, and the buffer returned.
SerializeHeader ==
    /\ Runs(<<"Header", 0>>)
    /\ LET header == SerializedHeader(parcel.write_index)
       IN  parcel' = [parcel EXCEPT
                         !.header = header,
                         !.result = [size |-> parcel.size, header |-> header],
                         !.pending = Rest]
    /\ UNCHANGED serviceVars

\* ------------------------------------------------------- specification

Next ==
    \/ \E t \in Threads, id \in QueueIds : TransactConnect(t, id)
    \/ \E t \in Threads, id \in QueueIds : \E slot \in Slots(id), d \in Dims :
          TransactSetPreallocatedBuffer(t, id, slot, d)
    \/ \E t \in Threads, id \in QueueIds, d \in RequestDims :
          TransactDequeueBuffer(t, id, d[1], d[2])
    \/ \E t \in Threads : WakeCallback(t)
    \/ \E t \in Threads, id \in QueueIds : \E slot \in Slots(id) :
          TransactRequestBuffer(t, id, slot)
    \/ \E t \in Threads, id \in QueueIds : \E slot \in Slots(id) :
          TransactQueueBuffer(t, id, slot)
    \/ \E t \in Threads, id \in QueueIds : TransactQuery(t, id)
    \/ \E t \in Threads, id \in QueueIds : \E slot \in Slots(id) :
          TransactCancelBuffer(t, id, slot)
    \/ \E t \in Threads, id \in QueueIds, code \in TransactionCodes :
          TransactDetachBuffer(t, id, code)
    \/ \E t \in Threads, id \in QueueIds, code \in TransactionCodes :
          TransactUnimplemented(t, id, code)
    \/ \E t \in Threads, id \in UnregisteredIds, code \in TransactionCodes :
          TransactMissingQueue(t, id, code)
    \/ \E t \in Threads, id \in QueueIds \cup {NoQueue}, addval \in AddVals :
          AdjustRefcount(t, id, addval)
    \/ \E t \in Threads, id \in QueueIds : GetNativeHandle(t, id)
    \/ \E q \in QueueIds : \E s \in Slots(q) : ConsumerAcquire(q, s)
    \/ \E q \in QueueIds : \E s \in Slots(q) : ConsumerRelease(q, s)

Spec == Init /\ [][Next]_vars

\* The kernel runs the wake callback of every woken thread.
LiveSpec == Init /\ [][Next]_vars /\ \A t \in Threads : WF_vars(WakeCallback(t))

\* The display services from their construction: nothing opened or created.
ServiceInit ==
    /\ slotState = [q \in QueueIds |-> [s \in Slots(q) |-> "FREE"]]
    /\ slotDesc = [q \in QueueIds |-> [s \in Slots(q) |-> NoBuffer]]
    /\ status = [t \in Threads |-> "idle"]
    /\ callq = [t \in Threads |-> NoQueue]
    /\ calldims = [t \in Threads |-> NoBuffer]
    /\ waitEvent = [t \in Threads |-> NoQueue]
    /\ wokenBy = [t \in Threads |-> NoQueue]
    /\ parcels = [t \in Threads |-> 0]
    /\ results = [t \in Threads |-> 0]
    /\ resumes = [t \in Threads |-> 0]
    /\ retSlot = [t \in Threads |-> NoSlot]
    /\ fault = "none"
    /\ rcode = [t \in Threads |-> NoCode]
    /\ objects = [t \in Threads |-> 0]
    /\ retId = [t \in Threads |-> NoId]
    /\ displays = <<>>
    /\ layers = <<>>
    /\ freedSlot = [t \in Threads |-> NoSlot]
    /\ native_window = [t \in Threads |-> NoId]
    /\ parcel = NoParcel

ServiceNext ==
    \/ \E t \in Threads, permission \in 0..MaxPermission, policy \in 0..MaxPolicy :
          GetDisplayService(t, permission, policy)
    \/ \E t \in Threads, name_buf \in NameBufs : OpenDisplay(t, name_buf)
    \/ \E t \in Threads : OpenDefaultDisplay(t)
    \/ \E t \in Threads, name_buf \in NameBufs, layer_id \in 0..(MaxLayers + 1) :
          OpenLayer(t, name_buf, layer_id)
    \/ \E t \in Threads, display \in 0..MaxDisplayId : CreateManagedLayer(t, display)
    \/ \E t \in Threads, display_id \in 0..MaxDisplayId :
          CreateStrayLayer(t, display_id)
    \/ \E t \in Threads, scaling_mode \in 0..MaxScaleMode :
          SetLayerScalingMode(t, scaling_mode)
    \/ \E t \in Threads, mode \in 0..MaxScaleMode : ConvertScalingMode(t, mode)

ServiceSpec == ServiceInit /\ [][ServiceNext]_vars

\* The parcel codec on its own: a request parcel of any kind constructed from
\* a guest buffer, or a freshly constructed response parcel; nothing else of
\* the service runs.
ParcelInit ==
    /\ slotState = [q \in QueueIds |-> [s \in Slots(q) |-> "FREE"]]
    /\ slotDesc = [q \in QueueIds |-> [s \in Slots(q) |-> NoBuffer]]
    /\ status = [t \in Threads |-> "idle"]
    /\ callq = [t \in Threads |-> NoQueue]
    /\ calldims = [t \in Threads |-> NoBuffer]
    /\ waitEvent = [t \in Threads |-> NoQueue]
    /\ wokenBy = [t \in Threads |-> NoQueue]
    /\ parcels = [t \in Threads |-> 0]
    /\ results = [t \in Threads |-> 0]
    /\ resumes = [t \in Threads |-> 0]
    /\ retSlot = [t \in Threads |-> NoSlot]
    /\ fault = "none"
    /\ rcode = [t \in Threads |-> NoCode]
    /\ objects = [t \in Threads |-> 0]
    /\ retId = [t \in Threads |-> NoId]
    /\ displays = <<>>
    /\ layers = <<>>
    /\ freedSlot = [t \in Threads |-> NoSlot]
    /\ native_window = [t \in Threads |-> NoId]
    /\ \/ \E kind \in RequestKinds, size \in BufferSizes,
             data_offset \in DataOffsets, length \in TokenLengths :
             parcel = RequestParcel(kind, size, data_offset, length)
       \/ \E kind \in ResponseKinds : parcel = ResponseParcel(kind)

ParcelNext ==
    \/ Deserialize
    \/ \E n \in ReadSizes : Read(n)
    \/ ReadUnaligned(SizeofU16)
    \/ AlignReadIndex
    \/ \E length \in 0..MaxValueSize : ReadBlock(length)
    \/ \E n \in WriteSizes : Write(n)
    \/ \E n \in ValueSizes : CallWriteObject(n)
    \/ Serialize
    \/ SerializeHeader

ParcelSpec == ParcelInit /\ [][ParcelNext]_vars

\* The writing half of the codec: a freshly constructed response parcel of
\* one of the types of the service or of a single-value type.
PayloadInit ==
    /\ slotState = [q \in QueueIds |-> [s \in Slots(q) |-> "FREE"]]
    /\ slotDesc = [q \in QueueIds |-> [s \in Slots(q) |-> NoBuffer]]
    /\ status = [t \in Threads |-> "idle"]
    /\ callq = [t \in Threads |-> NoQueue]
    /\ calldims = [t \in Threads |-> NoBuffer]
    /\ waitEvent = [t \in Threads |-> NoQueue]
    /\ wokenBy = [t \in Threads |-> NoQueue]
    /\ parcels = [t \in Threads |-> 0]
    /\ results = [t \in Threads |-> 0]
    /\ resumes = [t \in Threads |-> 0]
    /\ retSlot = [t \in Threads |-> NoSlot]
    /\ fault = "none"
    /\ rcode = [t \in Threads |-> NoCode]
    /\ objects = [t \in Threads |-> 0]
    /\ retId = [t \in Threads |-> NoId]
    /\ displays = <<>>
    /\ layers = <<>>
    /\ freedSlot = [t \in Threads |-> NoSlot]
    /\ native_window = [t \in Threads |-> NoId]
    /\ \/ \E kind \in ResponseKinds : parcel = ResponseParcel(kind)
       \/ \E size \in PayloadSizes : parcel = PayloadParcel(size)

PayloadNext ==
    \/ \E n \in WriteSizes \cup PayloadSizes : Write(n)
    \/ \E n \in ValueSizes : CallWriteObject(n)
    \/ Serialize
    \/ SerializeHeader

PayloadSpec == PayloadInit /\ [][PayloadNext]_vars

\* ---------------------------------------------------------------- claims

NonFree == {"DEQUEUED", "QUEUED", "ACQUIRED"}

C2_MissedRetryReparks ==
    [][\A t \in Threads :
          (/\ WakeCallback(t)
           /\ EligibleSlots(callq[t], calldims[t]) = {}
           /\ \E u \in Threads \ {t} :
                 status[u] = "responded" /\ resumes[u] = 1 /\ retSlot[u] # NoSlot)
          => (status'[t] = "parked" /\ fault' = "none")]_vars

\* C3: on the one-slot queue 2, when the slot is released while exactly one
\* waiter is parked on it, the waiter is woken; and a sole woken waiter whose
\* slot is FREE with matching descriptor eventually completes with slot 0, one
\* parcel and its result, unless another caller claims the slot (or stops the
\* process) first.
SoleWaiter(t, st) ==
    /\ status[t] = st
    /\ callq[t] = 2
    /\ \A u \in Threads \ {t} : status[u] \in {"parked", "woken"} => callq[u] # 2

C3_SingleContenderLiveness ==
    /\ [][\A t \in Threads :
            (SoleWaiter(t, "parked") /\ slotState[2][0] # "FREE"
                /\ slotState'[2][0] = "FREE")
            => status'[t] = "woken"]_vars
    /\ \A t \in Threads :
          (SoleWaiter(t, "woken") /\ EligibleSlots(2, calldims[t]) = {0})
          ~> \/ /\ status[t] = "responded"
                /\ resumes[t] = 1
                /\ retSlot[t] = 0
                /\ parcels[t] = 1
                /\ slotState[2][0] = "DEQUEUED"
             \/ /\ status[t] = "woken"
                /\ EligibleSlots(2, calldims[t]) = {}
             \/ fault # "none"

\* A waiter completed through the wake path with slot 0 of queue 2 (slot 0 of
\* queue 1 never had a descriptor, so it was never dequeued).
C3_Witness ==
    \E t \in Threads :
        /\ status[t] = "responded"
        /\ resumes[t] = 1
        /\ retSlot[t] = 0
        /\ slotState[2][0] = "DEQUEUED"
        /\ slotDesc[1][0] = NoBuffer

\* C4: a continuation runs at most once per call; it runs only after its
\* thread was woken, and a thread is woken only by a slot of the queue its
\* transaction named becoming FREE in that very step.
C4_ResumedOnceByOwnQueue ==
    [][\A t \in Threads :
          /\ resumes'[t] <= 1
          /\ resumes'[t] > resumes[t]
                => /\ status[t] = "woken"
                   /\ resumes[t] = 0
                   /\ wokenBy[t] = callq[t]
          /\ (status[t] = "parked" /\ status'[t] = "woken")
                => /\ wokenBy'[t] = callq[t]
                   /\ \E s \in Slots(callq[t]) :
                         /\ slotState[callq[t]][s] # "FREE"
                         /\ slotState'[callq[t]][s] = "FREE"
          /\ (status[t] = "parked" /\ status'[t] # "parked")
                => (status'[t] = "woken" \/ fault' # "none")]_vars

\* A continuation has run once and answered.
C4_Witness ==
    \E t \in Threads : status[t] = "responded" /\ resumes[t] = 1 /\ results[t] = 2

\* C5 (as claimed): a suspended DequeueBuffer has written no parcel and pushed
\* no result code, and an answered call has pushed exactly one result code.
C5_OneResponsePerCall ==
    \A t \in Threads :
        /\ status[t] \in {"parked", "woken"} => parcels[t] = 0 /\ results[t] = 0
        /\ status[t] = "responded" => results[t] = 1

\* C6 (as claimed): on the one-slot queue 2, with a waiter suspended and slot 0
\* QUEUED by QueueBuffer(0), CancelBuffer(0) frees the slot and wakes the waiter.
C6_CancelAfterQueueWakesWaiter ==
    [][\A t \in Threads, w \in Threads :
          (/\ t # w
           /\ SoleWaiter(w, "parked")
           /\ calldims[w] = slotDesc[2][0]
           /\ slotState[2][0] = "QUEUED"
           /\ TransactCancelBuffer(t, 2, 0))
          => (slotState'[2][0] = "FREE" /\ status'[w] = "woken")]_vars

\* C7 (as claimed): CancelBuffer or DetachBuffer on a DEQUEUED slot leaves the
\* slot FREE and is acknowledged with a parcel and a result.
C7_CancelFreesDequeuedSlot ==
    [][\A t \in Threads, id \in QueueIds : \A slot \in Slots(id) :
          (/\ slotState[id][slot] = "DEQUEUED"
           /\ \/ TransactCancelBuffer(t, id, slot)
              \/ TransactDetachBuffer(t, id, DetachBuffer))
          => /\ slotState'[id][slot] = "FREE"
             /\ parcels'[t] = 1
             /\ results'[t] = 1]_vars

\* C8: QueueBuffer on a slot that is not DEQUEUED fails with InvalidState: the
\* call is stopped without parcel or result, and no slot state changes.
C8_QueueBufferInvalidState ==
    [][\A t \in Threads, id \in QueueIds : \A slot \in Slots(id) :
          (slotState[id][slot] # "DEQUEUED" /\ TransactQueueBuffer(t, id, slot))
          => /\ fault' = "InvalidState"
             /\ status'[t] = "aborted"
             /\ parcels'[t] = 0
             /\ results'[t] = 0
             /\ slotState' = slotState]_vars

\* A QueueBuffer was refused while another slot of the queue was DEQUEUED.
C8_Witness ==
    /\ fault = "InvalidState"
    /\ \E q \in QueueIds : \E s \in Slots(q) : slotState[q][s] = "DEQUEUED"

\* C9: whenever a slot of queue q becomes FREE, every thread parked by a
\* DequeueBuffer on q is woken by q's signal and can re-attempt, and threads
\* parked on another queue stay parked.
C9_SlotFreedWakesAllWaiters ==
    [][\A q \in QueueIds :
          (\E s \in Slots(q) : slotState[q][s] # "FREE" /\ slotState'[q][s] = "FREE")
          => \A t \in Threads :
                /\ (status[t] = "parked" /\ callq[t] = q)
                      => (status'[t] = "woken" /\ wokenBy'[t] = q)
                /\ (status[t] = "parked" /\ callq[t] # q)
                      => status'[t] = "parked"]_vars

\* One waiter woken by its queue while a waiter of the other queue is parked.
C9_Witness ==
    \E t \in Threads, u \in Threads :
        /\ status[t] = "woken"
        /\ status[u] = "parked"
        /\ callq[t] # callq[u]

\* C10: a DequeueBuffer (first attempt or retry on wake) reports the
\* lowest-indexed FREE slot whose descriptor has the requested dimensions and
\* moves exactly that slot to DEQUEUED; with no such slot it reports none and
\* changes no slot state.
DequeueOutcome(t, id, dims, missStatus) ==
    IF \E s \in Slots(id) : slotState[id][s] = "FREE" /\ slotDesc[id][s] = dims
    THEN \E s \in Slots(id) :
            /\ slotState[id][s] = "FREE" /\ slotDesc[id][s] = dims
            /\ \A u \in Slots(id) :
                  (slotState[id][u] = "FREE" /\ slotDesc[id][u] = dims) => s <= u
            /\ retSlot'[t] = s
            /\ status'[t] = "responded"
            /\ slotState'[id][s] = "DEQUEUED"
            /\ \A q \in QueueIds : \A u \in Slots(q) :
                  <<q, u>> # <<id, s>> => slotState'[q][u] = slotState[q][u]
    ELSE /\ slotState' = slotState
         /\ status'[t] = missStatus
         /\ status'[t] = "parked" => retSlot'[t] = NoSlot

C10_DequeueLowestEligible ==
    [][\A t \in Threads :
          /\ \A id \in QueueIds, d \in RequestDims :
                TransactDequeueBuffer(t, id, d[1], d[2])
                   => DequeueOutcome(t, id, d, "parked")
          /\ WakeCallback(t)
                => DequeueOutcome(t, callq[t], calldims[t], "aborted")]_vars

\* Slot 1 of queue 1 was handed out while slot 0 was FREE with a descriptor of
\* other dimensions.
C10_Witness ==
    \E t \in Threads :
        /\ status[t] = "responded"
        /\ retSlot[t] = 1
        /\ slotState[1][1] = "DEQUEUED"
        /\ slotState[1][0] = "FREE"
        /\ slotDesc[1][0] \in Dims \ RequestDims

\* C11: SetPreallocatedBuffer(slot, descriptor) binds the descriptor to that
\* slot whatever the slot's state and changes neither a slot state nor another
\* slot's descriptor; and a bound descriptor changes in no other step: if the
\* descriptor of a slot differs after a step, the step was a
\* SetPreallocatedBuffer on that slot.
C11_DescriptorOnlySetByPreallocate ==
    [][/\ \A t \in Threads, id \in QueueIds : \A slot \in Slots(id), d \in Dims :
             TransactSetPreallocatedBuffer(t, id, slot, d)
             => /\ slotDesc'[id][slot] = d
                /\ slotState' = slotState
                /\ \A q \in QueueIds : \A s \in Slots(q) :
                      <<q, s>> # <<id, slot>> => slotDesc'[q][s] = slotDesc[q][s]
       /\ \A q \in QueueIds : \A s \in Slots(q) :
             slotDesc'[q][s] # slotDesc[q][s]
             => \E t \in Threads, d \in Dims :
                   TransactSetPreallocatedBuffer(t, q, s, d)]_vars

\* Slot 1 of queue 1 is ACQUIRED and bound to a descriptor no DequeueBuffer
\* asks for: it was rebound while in use, and went on through its lifecycle
\* with the descriptor of slot 0 untouched.
C11_Witness ==
    /\ slotState[1][1] = "ACQUIRED"
    /\ slotDesc[1][1] \in Dims \ RequestDims
    /\ slotDesc[1][0] \in RequestDims

\* C12 (as claimed): RequestBuffer on a slot that never had a descriptor bound
\* is answered with the NotFound failure code, and the process goes on.
C12_RequestBufferNotFoundCode ==
    [][\A t \in Threads, id \in QueueIds : \A slot \in Slots(id) :
          (slotDesc[id][slot] = NoBuffer /\ TransactRequestBuffer(t, id, slot))
          => /\ status'[t] = "responded"
             /\ rcode'[t] = ERR_NOT_FOUND
             /\ fault' = "none"]_vars

\* C13: Query, RequestBuffer, Connect, AdjustRefcount and GetNativeHandle
\* change no slot state, no bound descriptor and nothing in the display/layer
\* registry, and while the process runs they wake, park or resume no waiter
\* (RequestBuffer on a slot without descriptor stops the process, see C12);
\* AdjustRefcount and GetNativeHandle always answer with RESULT_SUCCESS.
ReadOnlyStep(t) ==
    \E id \in QueueIds :
        \/ TransactQuery(t, id)
        \/ TransactConnect(t, id)
        \/ \E slot \in Slots(id) : TransactRequestBuffer(t, id, slot)
        \/ GetNativeHandle(t, id)
        \/ \E addval \in AddVals :
              AdjustRefcount(t, id, addval) \/ AdjustRefcount(t, NoQueue, addval)

AnsweredSuccess(t) ==
    /\ status'[t] = "responded"
    /\ results'[t] = 1
    /\ rcode'[t] = RESULT_SUCCESS
    /\ fault' = "none"

UnhandledCodes == TransactionCodes \ {1, 3, 4, 7, 8, 9, 10, 11, 14}

C14_UnhandledCodeIsFatal ==
    [][\A t \in Threads, id \in QueueIds, code \in UnhandledCodes :
          (CanCall(t) /\ TransactUntyped(t, id, code))
          => /\ fault' = "Unimplemented"
             /\ status'[t] = "aborted"
             /\ parcels'[t] = 0
             /\ results'[t] = 0
             /\ rcode'[t] # RESULT_SUCCESS
             /\ slotState' = slotState
             /\ slotDesc' = slotDesc]_vars

\* An unhandled code stopped the process while a slot was DEQUEUED and a
\* descriptor bound.
C14_Witness ==
    /\ fault = "Unimplemented"
    /\ \E q \in QueueIds : \E s \in Slots(q) :
          slotState[q][s] = "DEQUEUED" /\ slotDesc[q][s] # NoBuffer

GrantedAccess ==
    { <<Permission_User, Policy_User>>,
      <<Permission_System, Policy_User>>,
      <<Permission_System, Policy_Compositor>>,
      <<Permission_Manager, Policy_User>>,
      <<Permission_Manager, Policy_Compositor>> }

C16_AccessGate ==
    [][\A t \in Threads, permission \in 0..MaxPermission, policy \in 0..MaxPolicy :
          GetDisplayService(t, permission, policy)
          => /\ status'[t] = "responded"
             /\ results'[t] = 1
             /\ IF <<permission, policy>> \in GrantedAccess
                THEN rcode'[t] = RESULT_SUCCESS /\ objects'[t] = 1
                ELSE rcode'[t] = ERR_PERMISSION_DENIED /\ objects'[t] = 0]_vars

\* One caller was denied and another was handed the service.
C16_Witness ==
    \E t \in Threads, u \in Threads :
        /\ rcode[t] = ERR_PERMISSION_DENIED
        /\ objects[t] = 0
        /\ rcode[u] = RESULT_SUCCESS
        /\ objects[u] = 1

\* C17: opening the display "Default" is idempotent: at most one display of
\* that name ever exists, and every OpenDefaultDisplay, whatever registry
\* operations ran before it, succeeds with the id of that one display, which
\* only the first opening creates; later calls return the id already given
\* and create nothing.
C17_OpenDefaultIdempotent ==
    /\ [](Cardinality({d \in DisplayIds : displays[d] = RecognizedName}) <= 1)
    /\ [][\A t \in Threads :
            OpenDefaultDisplay(t)
            => /\ rcode'[t] = RESULT_SUCCESS
               /\ retId'[t] \in 1..Len(displays')
               /\ displays'[retId'[t]] = RecognizedName
               /\ layers' = layers
               /\ \A d \in DisplayIds :
                     displays[d] = RecognizedName
                     => (retId'[t] = d /\ displays' = displays)]_vars

\* Two callers hold the same display id from two openings; no layer exists,
\* so neither id is a layer id.
C17_Witness ==
    /\ Len(displays) = 1
    /\ layers = <<>>
    /\ \E t \in Threads, u \in Threads :
          /\ t # u
          /\ rcode[t] = RESULT_SUCCESS /\ retId[t] = 1
          /\ rcode[u] = RESULT_SUCCESS /\ retId[u] = 1

\* C18 (as claimed): OpenDisplay with a name that, trimmed at the first NUL,
\* is not the recognized name is answered with NotFound, creates no display,
\* and the process goes on.
C18_UnknownNameNotFound ==
    [][\A t \in Threads, name_buf \in NameBufs :
          (TrimAtNul(name_buf) # RecognizedName /\ OpenDisplay(t, name_buf))
          => /\ status'[t] = "responded"
             /\ rcode'[t] = ERR_NOT_FOUND
             /\ displays' = displays
             /\ fault' = "none"]_vars

\* C19: CreateManagedLayer and CreateStrayLayer with a display id that no
\* opening has returned are answered with NotFound, without id or parcel, and
\* leave the layers (each with its buffer queue), the displays and the slot
\* tables unchanged.
C19_CreateLayerUnknownDisplay ==
    [][\A t \in Threads, display_id \in 0..MaxDisplayId :
          (/\ display_id \notin DisplayIds
           /\ CreateManagedLayer(t, display_id) \/ CreateStrayLayer(t, display_id))
          => /\ status'[t] = "responded"
             /\ rcode'[t] = ERR_NOT_FOUND
             /\ retId'[t] = NoId
             /\ parcels'[t] = 0
             /\ layers' = layers
             /\ displays' = displays
             /\ slotState' = slotState
             /\ slotDesc' = slotDesc
             /\ fault' = "none"]_vars

\* A layer creation was refused before any display was opened, after the
\* other caller was handed the service.
C19_Witness ==
    /\ displays = <<>>
    /\ layers = <<>>
    /\ \E t \in Threads, u \in Threads :
          /\ rcode[t] = ERR_NOT_FOUND
          /\ retId[t] = NoId
          /\ objects[u] = 1

\* C20 (as claimed): SetLayerScalingMode with a mode greater than
\* PreserveAspectRatio = 4 is answered with Unsupported.
C20_OutOfRangeUnsupported ==
    [][\A t \in Threads, scaling_mode \in 5..MaxScaleMode :
          SetLayerScalingMode(t, scaling_mode)
          => rcode'[t] = ERR_UNSUPPORTED]_vars

\* C20 (amended): SetLayerScalingMode with a mode greater than
\* PreserveAspectRatio = 4 is answered with the operation-failed code (1),
\* distinct from Unsupported (6) and from NotFound (7); the in-range modes None,
\* Freeze and ScaleAndCrop are answered with Unsupported, and ScaleToWindow and
\* PreserveAspectRatio with success.  No registry or queue state changes.
C20_OutOfRangeOperationFailed ==
    [][\A t \in Threads, scaling_mode \in 0..MaxScaleMode :
          SetLayerScalingMode(t, scaling_mode)
          => /\ status'[t] = "responded"
             /\ scaling_mode > 4
                   => /\ rcode'[t] = ERR_OPERATION_FAILED
                      /\ rcode'[t] \notin {ERR_UNSUPPORTED, ERR_NOT_FOUND, RESULT_SUCCESS}
             /\ scaling_mode \in {0, 1, 3} => rcode'[t] = ERR_UNSUPPORTED
             /\ scaling_mode \in {2, 4} => rcode'[t] = RESULT_SUCCESS
             /\ displays' = displays
             /\ layers' = layers]_vars

\* One caller sent an out-of-range mode, the other an in-range mode that is
\* not accepted.
C20_Witness ==
    \E t \in Threads, u \in Threads :
        /\ rcode[t] = ERR_OPERATION_FAILED
        /\ rcode[u] = ERR_UNSUPPORTED

\* C21 (as claimed): every result code a handler returns to the guest is
\* success, NotFound, Unsupported or PermissionDenied.
C21_OnlyThreeFailureCodes ==
    \A t \in Threads :
        rcode[t] \in {NoCode, RESULT_SUCCESS, ERR_NOT_FOUND, ERR_UNSUPPORTED,
                      ERR_PERMISSION_DENIED}

\* C21 (amended): every result code a handler returns to the guest is success,
\* NotFound, Unsupported, PermissionDenied or the operation-failed code (1); the
\* operation-failed code is returned only by SetLayerScalingMode and
\* ConvertScalingMode for a scaling mode greater than 4; a call stopped by a
\* failed assertion returns no code at all.
C21_FourFailureCodes ==
    /\ [](\A t \in Threads :
             /\ rcode[t] \in {NoCode, RESULT_SUCCESS, ERR_NOT_FOUND, ERR_UNSUPPORTED,
                              ERR_PERMISSION_DENIED, ERR_OPERATION_FAILED}
             /\ status[t] \in {"aborted", "stopped"} => rcode[t] = NoCode)
    /\ [][\A t \in Threads :
            (rcode'[t] = ERR_OPERATION_FAILED /\ status'[t] = "responded"
                /\ (rcode[t] # ERR_OPERATION_FAILED \/ status[t] # "responded"))
            => \E mode \in 5..MaxScaleMode :
                  SetLayerScalingMode(t, mode) \/ ConvertScalingMode(t, mode)]_vars

\* One caller was answered the operation-failed code, the other was denied
\* at the gate.
C21_Witness ==
    \E t \in Threads, u \in Threads :
        /\ rcode[t] = ERR_OPERATION_FAILED
        /\ rcode[u] = ERR_PERMISSION_DENIED

\* The bytes a sequence of writes takes behind the header: each value rounded
\* up to a multiple of 4.
RECURSIVE EncodedSize(_)
EncodedSize(ops) ==
    IF ops = <<>> THEN 0
    ELSE ((Head(ops)[2] + 3) \div 4) * 4 + EncodedSize(Tail(ops))

\* C22: every buffer Serialize returns, for every response parcel type, has a
\* header with data_offset = 16, objects_size = 4, objects_offset = 16 +
\* data_size, and data_size equal to the bytes the type's SerializeData wrote,
\* each value rounded up to a multiple of 4.
C22_SerializedHeaderFields ==
    parcel.result # NoResult =>
        /\ parcel.result.header.data_offset = 16
        /\ parcel.result.header.objects_size = 4
        /\ parcel.result.header.objects_offset = 16 + parcel.result.header.data_size
        /\ parcel.result.header.data_size = EncodedSize(SerializeData(parcel.kind))
        /\ parcel.kind \in ResponseKinds

\* C22 witness: a serialized IGBPRequestBufferResponseParcel, whose 380 data
\* bytes made the buffer grow, has objects_offset 396.
C22_Witness ==
    /\ parcel.kind = "IGBPRequestBufferResponseParcel"
    /\ parcel.result.size > DefaultBufferSize
    /\ parcel.result.header = MakeHeader(380, 16, 4, 396)

\* The parcel is inside the unit loop of ReadInterfaceToken: the next step is
\* a ReadUnaligned or the round-up that ends the token.
InTokenLoop ==
    /\ parcel.pending # <<>>
    /\ Head(parcel.pending)[1] \in {"ReadUnaligned", "AlignUp"}

\* The read cursor is where Deserialize put it and nothing was read from there.
AtDataOffset ==
    /\ parcel.read_index = parcel.header.data_offset
    /\ parcel.copied = 16

\* C23: every Read<T>, every ReadBlock and the end of ReadInterfaceToken leave
\* the read cursor on a multiple of 4, whatever the value size and the cursor
\* they started from (a cursor taken from any header data_offset included);
\* every Write<T>, hence every WriteObject<T>, leaves the write cursor on a
\* multiple of 4; and the read cursor of a running parcel is off a multiple of
\* 4 only inside the unit loop of ReadInterfaceToken, or where an unaligned
\* data_offset put it before the first read.
C23_CursorsAligned ==
    /\ [](/\ parcel.write_index % 4 = 0
          /\ (parcel.error = "none" /\ parcel.read_index % 4 # 0)
                => (InTokenLoop \/ AtDataOffset))
    /\ [][/\ ((\/ \E n \in ReadSizes : Read(n)
               \/ \E length \in 0..MaxValueSize : ReadBlock(length)
               \/ AlignReadIndex)
              /\ parcel'.error = "none")
                 => parcel'.read_index % 4 = 0
          /\ (\E n \in WriteSizes : Write(n)) => parcel'.write_index % 4 = 0]_vars

\* C23 witness: the header carried data_offset 17; the first Read<u32_le> of
\* the token copied bytes 17..20 and left the cursor on 24.
C23_Witness ==
    /\ parcel.kind \in RequestKinds
    /\ parcel.header.data_offset = 17
    /\ parcel.copied = 21
    /\ parcel.read_index = 24
    /\ parcel.error = "none"

\* C24 (as claimed): in every state of a parcel the read cursor is at most
\* the buffer length, after Deserialize has set it from the header's
\* data_offset and after the round-up that follows each read.
C24_ReadCursorInsideBuffer == parcel.read_index <= parcel.size

\* The end of the furthest byte range a sequence of read steps asks for when
\* it starts at the given cursor and every step is carried out.
RECURSIVE RangeEnd(_, _)
RangeEnd(ops, cursor) ==
    IF ops = <<>> THEN 0
    ELSE LET op == Head(ops)
             end == IF op[1] = "AlignUp" THEN 0 ELSE cursor + op[2]
             next == IF op[1] = "ReadUnaligned" THEN cursor + op[2]
                     ELSE ((end + 3) \div 4) * 4
             after == IF op[1] = "AlignUp" THEN ((cursor + 3) \div 4) * 4 ELSE next
             rest == RangeEnd(Tail(ops), after)
         IN  IF end > rest THEN end ELSE rest

\* The read steps whose byte range starts at the cursor and has n bytes.
ReadStepOf(n) ==
    \/ n \in ReadSizes /\ Read(n)
    \/ n = SizeofU16 /\ ReadUnaligned(n)
    \/ n \in 0..MaxValueSize /\ ReadBlock(n)

\* The constructor of a request parcel has returned: the request is decoded.
Decoded ==
    /\ parcel.kind \in RequestKinds
    /\ parcel.error = "none"
    /\ parcel.pending = <<>>

\* C25: a Read<T>, ReadUnaligned<T> or ReadBlock(n) whose byte range
\* [cursor, cursor + size) does not lie inside the buffer fails with
\* ProtocolViolation, copies nothing and leaves the cursor; no read copies
\* bytes from behind the end of the buffer; and a request parcel is decoded
\* only if every byte range its decode step asks for lies inside the buffer.
C25_ReadsStayInsideBuffer ==
    /\ [](/\ parcel.copied <= parcel.size
          /\ Decoded =>
                RangeEnd(DeserializeData(parcel.kind, parcel.token_length),
                         parcel.header.data_offset) <= parcel.size)
    /\ [][\A n \in ReadSizes \cup {0} :
            (ReadStepOf(n) /\ parcel.read_index + n > parcel.size)
            => /\ parcel'.error = "ProtocolViolation"
               /\ parcel'.copied = parcel.copied
               /\ parcel'.read_index = parcel.read_index
               /\ parcel'.pending = <<>>]_vars

\* C25 witness: a request of 30 bytes whose token ended at byte 26; the
\* Read<u32_le> of bytes 28..31 that follows failed and copied nothing.
C25_Witness ==
    /\ parcel.kind = "IGBPQueryRequestParcel"
    /\ parcel.size = 30
    /\ parcel.read_index = 28
    /\ parcel.copied = 26
    /\ parcel.error = "ProtocolViolation"

\* C26: Deserialize on a buffer of 16 bytes or fewer fails with
\* ProtocolViolation before the header is read and before any decode step
\* runs: nothing is copied out of the buffer and the read cursor stays 0.
C26_ShortBufferRejected ==
    /\ [][(Deserialize /\ parcel.size <= 16)
            => /\ parcel'.error = "ProtocolViolation"
               /\ parcel'.pending = <<>>
               /\ parcel'.copied = 0
               /\ parcel'.read_index = 0]_vars
    /\ [](parcel.copied > 0 => parcel.size > 16)

\* C26 witness: the constructor of a request parcel given exactly 16 bytes
\* has failed without reading anything.
C26_Witness ==
    /\ parcel.kind \in RequestKinds
    /\ parcel.size = 16
    /\ parcel.error = "ProtocolViolation"
    /\ parcel.copied = 0
    /\ parcel.read_index = 0

\* The owner has called a read on the parcel, or its constructor has run
\* Deserialize.
ReadFromOrDeserialized == parcel.copied > 0

\* Serialize is running on a parcel it has serialized before.
Reserializing ==
    /\ parcel.result # NoResult
    /\ parcel.pending # <<>>
    /\ parcel.pending[Len(parcel.pending)] = <<"Header", 0>>

C29_ContinuationRetriesFromIdAndDims ==
    /\ [][\A t \in Threads, id \in QueueIds, d \in RequestDims :
            (TransactDequeueBuffer(t, id, d[1], d[2]) /\ status'[t] = "parked")
            => (callq'[t] = id /\ calldims'[t] = d)]_vars
    /\ [][\A t \in Threads :
            (status[t] \in {"parked", "woken"} /\ status'[t] \in {"parked", "woken"})
            => (callq'[t] = callq[t] /\ calldims'[t] = calldims[t])]_vars
    /\ [][\A t \in Threads :
            (WakeCallback(t) /\ fault' = "none")
            => /\ status'[t] = "responded"
               /\ retSlot'[t] \in Slots(callq[t])
               /\ slotState[callq[t]][retSlot'[t]] = "FREE"
               /\ slotDesc[callq[t]][retSlot'[t]] = calldims[t]
               /\ \A s \in Slots(callq[t]) :
                     s < retSlot'[t] =>
                        ~(slotState[callq[t]][s] = "FREE"
                            /\ slotDesc[callq[t]][s] = calldims[t])
               /\ slotState' = [slotState EXCEPT ![callq[t]][retSlot'[t]] = "DEQUEUED"]]_vars

\* C29 witness: the wake callback of a thread has reported a slot other than
\* the one whose release raised the signal that woke it.
C29_Witness ==
    \E t \in Threads :
        /\ status[t] = "responded"
        /\ resumes[t] = 1
        /\ freedSlot[t] # NoSlot
        /\ retSlot[t] # NoSlot
        /\ retSlot[t] # freedSlot[t]

\* C30 (as claimed): a successful QueueBuffer(slot, ...) moves that slot from
\* DEQUEUED to QUEUED, leaves every other slot's state and every descriptor
\* unchanged, and the response carries the queue's status after the
\* transition: its pending-buffer count.
C30_QueueBufferEffectAndStatus ==
    [][\A t \in Threads, id \in QueueIds : \A slot \in Slots(id) :
          (slotState[id][slot] = "DEQUEUED" /\ TransactQueueBuffer(t, id, slot))
          => /\ slotState' = [slotState EXCEPT ![id][slot] = "QUEUED"]
             /\ slotDesc' = slotDesc
             /\ parcels'[t] = 1
             /\ QueueBufferResponse.num_pending_buffers
                   = BufferQueue_PendingBuffers(slotState', id)]_vars

\* The number of code units a token of stored length L has: L + 1 as a 32-bit
\* sum, which is 0 for the largest L.
TokenUnits(L) == IF L = U32 - 1 THEN 0 ELSE L + 1

\* Where the code units of the token start when ReadInterfaceToken is entered
\* at the given cursor: behind the two u32, each read followed by a round-up.
TokenUnitsStart(cursor) == ((((cursor + 4 + 3) \div 4) * 4 + 4 + 3) \div 4) * 4

\* ReadInterfaceToken of the constructor has just returned: what is pending is
\* the decode step behind the token.
TokenDone ==
    /\ parcel.kind \in RequestKinds
    /\ parcel.error = "none"
    /\ parcel.copied > 0
    /\ parcel.calls = 0
    /\ Len(parcel.pending) + Len(ReadInterfaceToken(parcel.token_length))
          = Len(DeserializeData(parcel.kind, parcel.token_length))

C32_MissingQueueIsFatal ==
    [][\A t \in Threads, id \in UnregisteredIds, code \in TransactionCodes :
          TransactMissingQueue(t, id, code)
          => /\ fault' = "MissingQueue"
             /\ status'[t] = "aborted"
             /\ parcels'[t] = 0
             /\ results'[t] = 0
             /\ rcode'[t] = NoCode
             /\ UNCHANGED queueVars]_vars

\* C32 witness: a call on an unregistered id was stopped by the lookup while
\* a buffer of a registered queue was in the guest's hands.
C32_Witness ==
    /\ fault = "MissingQueue"
    /\ \E t \in Threads : status[t] = "aborted" /\ rcode[t] = NoCode
    /\ \E q \in QueueIds : \E s \in Slots(q) : slotState[q][s] = "DEQUEUED"

\* The layers of display d in the registry.
LayersOf(d) == {l \in 1..Len(layers) : layers[l] = d}

\* The name buffers whose characters before the first NUL spell the
\* recognized display name.
KnownNameBufs ==
    { Fill(DefaultDisplayName, NUL), Fill(DefaultDisplayName \o <<NUL>>, "x") }

\* C33: in every reachable registry state each layer belongs to a display
\* that exists and resolves through find_buffer_queue_id to exactly one buffer
\* queue; CreateStrayLayer answers NotFound exactly when the display id is
\* unknown, and otherwise creates one layer and answers success with its id
\* and one NativeWindow parcel carrying the new layer's queue id; OpenLayer
\* answers NotFound exactly when the name before the first NUL is not the
\* recognized one or the layer id is not a layer of that display, and
\* otherwise success with one NativeWindow parcel carrying that layer's
\* queue id.
C33_LayerHasItsQueue ==
    /\ [](\A l \in 1..Len(layers) :
            /\ layers[l] \in DisplayIds
            /\ Cardinality({q \in 1..Len(layers) :
                   NVFlinger_FindBufferQueueId(layers[l], l, layers) = q}) = 1)
    /\ [][\A t \in Threads, display_id \in 0..MaxDisplayId :
            CreateStrayLayer(t, display_id)
            => /\ status'[t] = "responded"
               /\ fault' = "none"
               /\ (rcode'[t] = ERR_NOT_FOUND) <=> (display_id \notin DisplayIds)
               /\ rcode'[t] = ERR_NOT_FOUND
                     => /\ layers' = layers
                        /\ parcels'[t] = 0
                        /\ native_window'[t] = NoId
               /\ rcode'[t] # ERR_NOT_FOUND
                     => /\ rcode'[t] = RESULT_SUCCESS
                        /\ Len(layers') = Len(layers) + 1
                        /\ retId'[t] = Len(layers')
                        /\ layers'[retId'[t]] = display_id
                        /\ parcels'[t] = 1
                        /\ native_window'[t] # NoId
                        /\ native_window'[t] =
                              NVFlinger_FindBufferQueueId(display_id, retId'[t],
                                                          layers')]_vars
    /\ [][\A t \in Threads, name_buf \in NameBufs, layer_id \in 0..(MaxLayers + 1) :
            OpenLayer(t, name_buf, layer_id)
            => /\ status'[t] = "responded"
               /\ fault' = "none"
               /\ layers' = layers
               /\ (rcode'[t] = ERR_NOT_FOUND)
                     <=> \/ name_buf \notin KnownNameBufs
                         \/ \A d \in 1..Len(displays') :
                               displays'[d] = RecognizedName
                               => layer_id \notin LayersOf(d)
               /\ rcode'[t] = ERR_NOT_FOUND
                     => /\ parcels'[t] = 0
                        /\ native_window'[t] = NoId
               /\ rcode'[t] # ERR_NOT_FOUND
                     => /\ rcode'[t] = RESULT_SUCCESS
                        /\ parcels'[t] = 1
                        /\ native_window'[t] # NoId
                        /\ \E d \in DisplayIds :
                              native_window'[t] =
                                 NVFlinger_FindBufferQueueId(d, layer_id, layers)]_vars

\* One caller created the second layer and got its queue in the window, and
\* the other then opened the first layer by name and got that layer's queue.
C33_Witness ==
    /\ Len(layers) = 2
    /\ \E t \in Threads, u \in Threads :
          /\ t # u
          /\ rcode[t] = RESULT_SUCCESS /\ retId[t] = 2 /\ native_window[t] = 2
          /\ rcode[u] = RESULT_SUCCESS /\ retId[u] = NoId /\ native_window[u] = 1

\* A buffer returned by Serialize whose header declares the data region and
\* the objects region inside it.
RegionsInside(result) ==
    /\ SizeofHeader + result.header.data_size <= result.size
    /\ result.header.objects_offset + result.header.objects_size <= result.size

====
